---- MODULE Spec2Model ----
\* Model of the transaction processor: main's replay loop, the AccountManager
\* registry and the per-account ledger state machine (Account::process_record).
EXTENDS Integers, Sequences, FiniteSets, TLC

\* ---------------------------------------------------------------- bounds
\* Decimal is modelled as an integer count of the smallest unit, confined to
\* -MaxDec..MaxDec (rust_decimal: a 96 bit mantissa with a sign).
MaxDec == 2
\* amounts carried by input records: one negative value, the smallest unit
\* and MaxAmount
MaxAmount == 2
NumClients == 2
NumTx == 2
\* length of the multi-client input stream read by main (SpecManager)
MaxEvents == 4

ClientIds == 1..NumClients
TransactionIds == 1..NumTx
Decimals == (0 - MaxDec)..MaxDec

\* Option<Decimal>: None is the empty sequence, Some(a) is <<a>>
None == <<>>
Some(a) == <<a>>
Amounts == {None, Some(0 - 1), Some(1), Some(MaxAmount)}

InputRecordType == {"Deposit", "Withdrawal", "Dispute", "Resolve", "Chargeback"}
TransactionState == {"Valid", "Dispute", "Resolved", "ChargedBack"}
TransactionType == {"Deposit", "Withdrawal"}

\* ---------------------------------------------------------------- Decimal
DECIMAL_ZERO == 0

InRange(x) == x >= 0 - MaxDec /\ x <= MaxDec

\* Decimal::checked_add / checked_sub: None when the result leaves the range
checked_add(a, b) == IF InRange(a + b) THEN Some(a + b) ELSE None
checked_sub(a, b) == IF InRange(a - b) THEN Some(a - b) ELSE None

\* ---------------------------------------------------------------- results
Ok == [kind |-> "Ok"]
AccountIsLocked == [kind |-> "AccountIsLocked"]
AmountMissing == [kind |-> "AmountMissing"]
DecimalOverflow == [kind |-> "DecimalOverflow"]
TransactionAlreadyExists(id) == [kind |-> "TransactionAlreadyExists", id |-> id]
TransactionMissing(id) == [kind |-> "TransactionMissing", id |-> id]
TransactionWrongState(expected, actual) ==
    [kind |-> "TransactionWrongState", expected |-> expected, actual |-> actual]
WithdrawalNotEnoughMoneyAvailable(available, requested) ==
    [kind |-> "WithdrawalNotEnoughMoneyAvailable",
     available |-> available, requested |-> requested]
\* the panic of Decimal's unchecked operators (`+=`, `+`): "Addition overflowed"
Panic == [kind |-> "Panic"]

\* what a call leaves behind: the account and the value returned
Outcome(self, result) == [account |-> self, result |-> result]

\* ---------------------------------------------------------------- Account
Transaction(state, amount, type) == [state |-> state, amount |-> amount, type |-> type]

EmptyMap == [t \in {} |-> 0]

\* HashMap::insert
Insert(map, key, value) ==
    [k \in DOMAIN map \cup {key} |-> IF k = key THEN value ELSE map[k]]

Account_new(client_id) ==
    [client_id |-> client_id, transactions |-> EmptyMap,
     available |-> DECIMAL_ZERO, held |-> DECIMAL_ZERO, locked |-> FALSE]

\* mutant: the two states of the error are swapped
check_if_state_eq_Swapped(transaction, expected) ==
    IF transaction.state # expected
    THEN TransactionWrongState(transaction.state, expected)
    ELSE Ok

check_if_state_eq(transaction, expected) ==
    IF transaction.state # expected
    THEN TransactionWrongState(expected, transaction.state)
    ELSE Ok

\* mutant: the disputed amount goes back from held to available for both kinds
calculate_transaction_revert_Release(transaction, available, held) ==
    LET new_held == checked_sub(held, transaction.amount)
        new_available == checked_add(available, transaction.amount)
    IN  IF new_held = None \/ new_available = None
        THEN [result |-> DecimalOverflow, available |-> available, held |-> held]
        ELSE [result |-> Ok, available |-> new_available[1], held |-> new_held[1]]

calculate_transaction_revert(transaction, available, held) ==
    IF transaction.type = "Deposit"
    THEN LET new_held == checked_sub(held, transaction.amount)
         IN  IF new_held = None
             THEN [result |-> DecimalOverflow, available |-> available, held |-> held]
             ELSE [result |-> Ok, available |-> available, held |-> new_held[1]]
    ELSE LET new_held == checked_sub(held, 0 - transaction.amount)
             new_available == checked_add(available, 0 - transaction.amount)
         IN  IF new_held = None \/ new_available = None
             THEN [result |-> DecimalOverflow, available |-> available, held |-> held]
             ELSE [result |-> Ok, available |-> new_available[1], held |-> new_held[1]]

\* mutant: a missing amount is taken as a deposit of zero
ProcessDeposit_MissingAsZero(self, record) ==
    IF record.transaction_id \in DOMAIN self.transactions
    THEN Outcome(self, TransactionAlreadyExists(record.transaction_id))
    ELSE LET amount == IF record.amount = None THEN DECIMAL_ZERO ELSE record.amount[1]
             inserted == [self EXCEPT !.transactions =
                              Insert(@, record.transaction_id,
                                     Transaction("Valid", amount, "Deposit"))]
         IN  IF InRange(self.available + amount)
             THEN Outcome([inserted EXCEPT !.available = @ + amount], Ok)
             ELSE Outcome(inserted, Panic)

\* the Deposit arm: the transaction is inserted before the unchecked `+=`
ProcessDeposit(self, record) ==
    IF record.transaction_id \in DOMAIN self.transactions
    THEN Outcome(self, TransactionAlreadyExists(record.transaction_id))
    ELSE IF record.amount = None
    THEN Outcome(self, AmountMissing)
    ELSE LET amount == record.amount[1]
             inserted == [self EXCEPT !.transactions =
                              Insert(@, record.transaction_id,
                                     Transaction("Valid", amount, "Deposit"))]
         IN  IF InRange(self.available + amount)
             THEN Outcome([inserted EXCEPT !.available = @ + amount], Ok)
             ELSE Outcome(inserted, Panic)

\* mutant: the amount is unwrapped before the identifier is looked up
ProcessWithdrawal_AmountFirst(self, record) ==
    IF record.amount = None
    THEN Outcome(self, AmountMissing)
    ELSE IF record.transaction_id \in DOMAIN self.transactions
    THEN Outcome(self, TransactionAlreadyExists(record.transaction_id))
    ELSE LET amount == record.amount[1]
             new_available == checked_sub(self.available, amount)
         IN  IF new_available = None
             THEN Outcome(self, DecimalOverflow)
             ELSE IF new_available[1] < DECIMAL_ZERO
             THEN Outcome(self, WithdrawalNotEnoughMoneyAvailable(self.available, amount))
             ELSE Outcome([self EXCEPT
                             !.transactions =
                                 Insert(@, record.transaction_id,
                                        Transaction("Valid", 0 - amount, "Withdrawal")),
                             !.available = new_available[1]], Ok)

\* mutant: the new available is not compared with zero
ProcessWithdrawal_NoFundsCheck(self, record) ==
    IF record.transaction_id \in DOMAIN self.transactions
    THEN Outcome(self, TransactionAlreadyExists(record.transaction_id))
    ELSE IF record.amount = None
    THEN Outcome(self, AmountMissing)
    ELSE LET amount == record.amount[1]
             new_available == checked_sub(self.available, amount)
         IN  IF new_available = None
             THEN Outcome(self, DecimalOverflow)
             ELSE Outcome([self EXCEPT
                             !.transactions =
                                 Insert(@, record.transaction_id,
                                        Transaction("Valid", 0 - amount, "Withdrawal")),
                             !.available = new_available[1]], Ok)

ProcessWithdrawal(self, record) ==
    IF record.transaction_id \in DOMAIN self.transactions
    THEN Outcome(self, TransactionAlreadyExists(record.transaction_id))
    ELSE IF record.amount = None
    THEN Outcome(self, AmountMissing)
    ELSE LET amount == record.amount[1]
             new_available == checked_sub(self.available, amount)
         IN  IF new_available = None
             THEN Outcome(self, DecimalOverflow)
             ELSE IF new_available[1] < DECIMAL_ZERO
             THEN Outcome(self, WithdrawalNotEnoughMoneyAvailable(self.available, amount))
             ELSE Outcome([self EXCEPT
                             !.transactions =
                                 Insert(@, record.transaction_id,
                                        Transaction("Valid", 0 - amount, "Withdrawal")),
                             !.available = new_available[1]], Ok)

\* mutant: available is written before the new held is computed
ProcessDispute_Partial(self, record) ==
    IF record.transaction_id \notin DOMAIN self.transactions
    THEN Outcome(self, TransactionMissing(record.transaction_id))
    ELSE LET transaction == self.transactions[record.transaction_id]
             check == check_if_state_eq(transaction, "Valid")
             new_available == checked_sub(self.available, transaction.amount)
             new_held == checked_add(self.held, transaction.amount)
         IN  IF check # Ok
             THEN Outcome(self, check)
             ELSE IF new_available = None
             THEN Outcome(self, DecimalOverflow)
             ELSE IF new_held = None
             THEN Outcome([self EXCEPT !.available = new_available[1]], DecimalOverflow)
             ELSE Outcome([self EXCEPT
                             !.transactions[record.transaction_id].state = "Dispute",
                             !.available = new_available[1],
                             !.held = new_held[1]], Ok)

\* mutant: the amount is moved from held to available
ProcessDispute_WrongDirection(self, record) ==
    IF record.transaction_id \notin DOMAIN self.transactions
    THEN Outcome(self, TransactionMissing(record.transaction_id))
    ELSE LET transaction == self.transactions[record.transaction_id]
             check == check_if_state_eq(transaction, "Valid")
             new_available == checked_add(self.available, transaction.amount)
             new_held == checked_sub(self.held, transaction.amount)
         IN  IF check # Ok
             THEN Outcome(self, check)
             ELSE IF new_available = None \/ new_held = None
             THEN Outcome(self, DecimalOverflow)
             ELSE Outcome([self EXCEPT
                             !.transactions[record.transaction_id].state = "Dispute",
                             !.available = new_available[1],
                             !.held = new_held[1]], Ok)

ProcessDispute(self, record) ==
    IF record.transaction_id \notin DOMAIN self.transactions
    THEN Outcome(self, TransactionMissing(record.transaction_id))
    ELSE LET transaction == self.transactions[record.transaction_id]
             check == check_if_state_eq(transaction, "Valid")
             new_available == checked_sub(self.available, transaction.amount)
             new_held == checked_add(self.held, transaction.amount)
         IN  IF check # Ok
             THEN Outcome(self, check)
             ELSE IF new_available = None \/ new_held = None
             THEN Outcome(self, DecimalOverflow)
             ELSE Outcome([self EXCEPT
                             !.transactions[record.transaction_id].state = "Dispute",
                             !.available = new_available[1],
                             !.held = new_held[1]], Ok)

\* mutant: an unknown identifier is reported as a transaction in the wrong state
ProcessResolve_MissingAsWrongState(self, record) ==
    IF record.transaction_id \notin DOMAIN self.transactions
    THEN Outcome(self, TransactionWrongState("Dispute", "Valid"))
    ELSE LET transaction == self.transactions[record.transaction_id]
             check == check_if_state_eq(transaction, "Dispute")
             revert == calculate_transaction_revert(transaction, self.available, self.held)
         IN  IF check # Ok
             THEN Outcome(self, check)
             ELSE IF revert.result # Ok
             THEN Outcome(self, revert.result)
             ELSE Outcome([self EXCEPT
                             !.available = revert.available,
                             !.held = revert.held,
                             !.transactions[record.transaction_id].state = "Resolved"], Ok)

ProcessResolve(self, record) ==
    IF record.transaction_id \notin DOMAIN self.transactions
    THEN Outcome(self, TransactionMissing(record.transaction_id))
    ELSE LET transaction == self.transactions[record.transaction_id]
             check == check_if_state_eq(transaction, "Dispute")
             revert == calculate_transaction_revert(transaction, self.available, self.held)
         IN  IF check # Ok
             THEN Outcome(self, check)
             ELSE IF revert.result # Ok
             THEN Outcome(self, revert.result)
             ELSE Outcome([self EXCEPT
                             !.available = revert.available,
                             !.held = revert.held,
                             !.transactions[record.transaction_id].state = "Resolved"], Ok)

\* mutant: the account is not locked
ProcessChargeback_NoLock(self, record) ==
    IF record.transaction_id \notin DOMAIN self.transactions
    THEN Outcome(self, TransactionMissing(record.transaction_id))
    ELSE LET transaction == self.transactions[record.transaction_id]
             check == check_if_state_eq(transaction, "Dispute")
             revert == calculate_transaction_revert(transaction, self.available, self.held)
         IN  IF check # Ok
             THEN Outcome(self, check)
             ELSE IF revert.result # Ok
             THEN Outcome(self, revert.result)
             ELSE Outcome([self EXCEPT
                             !.available = revert.available,
                             !.held = revert.held,
                             !.transactions[record.transaction_id].state = "ChargedBack"], Ok)

\* mutant: the account is locked but the transaction stays in Dispute
ProcessChargeback_KeepsDispute(self, record) ==
    IF record.transaction_id \notin DOMAIN self.transactions
    THEN Outcome(self, TransactionMissing(record.transaction_id))
    ELSE LET transaction == self.transactions[record.transaction_id]
             check == check_if_state_eq(transaction, "Dispute")
             revert == calculate_transaction_revert(transaction, self.available, self.held)
         IN  IF check # Ok
             THEN Outcome(self, check)
             ELSE IF revert.result # Ok
             THEN Outcome(self, revert.result)
             ELSE Outcome([self EXCEPT
                             !.available = revert.available,
                             !.held = revert.held,
                             !.locked = TRUE], Ok)

ProcessChargeback(self, record) ==
    IF record.transaction_id \notin DOMAIN self.transactions
    THEN Outcome(self, TransactionMissing(record.transaction_id))
    ELSE LET transaction == self.transactions[record.transaction_id]
             check == check_if_state_eq(transaction, "Dispute")
             revert == calculate_transaction_revert(transaction, self.available, self.held)
         IN  IF check # Ok
             THEN Outcome(self, check)
             ELSE IF revert.result # Ok
             THEN Outcome(self, revert.result)
             ELSE Outcome([self EXCEPT
                             !.available = revert.available,
                             !.held = revert.held,
                             !.locked = TRUE,
                             !.transactions[record.transaction_id].state = "ChargedBack"], Ok)

\* match record.r#type
MatchRecordType(self, record) ==
    CASE record.type = "Deposit" -> ProcessDeposit(self, record)
      [] record.type = "Withdrawal" -> ProcessWithdrawal(self, record)
      [] record.type = "Dispute" -> ProcessDispute(self, record)
      [] record.type = "Resolve" -> ProcessResolve(self, record)
      [] record.type = "Chargeback" -> ProcessChargeback(self, record)

\* mutant: the lock is looked at after the checks of the record's own arm
Account_process_record_LockLast(self, record) ==
    LET outcome == MatchRecordType(self, record)
    IN  IF ~self.locked
        THEN outcome
        ELSE IF outcome.result \in {Ok, Panic}
        THEN Outcome(self, AccountIsLocked)
        ELSE Outcome(self, outcome.result)

\* mutant: the lock only stops the records that create a transaction
Account_process_record_LockCreates(self, record) ==
    IF self.locked /\ record.type \in {"Deposit", "Withdrawal"}
    THEN Outcome(self, AccountIsLocked)
    ELSE MatchRecordType(self, record)

Account_process_record(self, record) ==
    IF self.locked
    THEN Outcome(self, AccountIsLocked)
    ELSE MatchRecordType(self, record)

\* ---------------------------------------------------------------- state
VARIABLES
    accounts,   \* AccountManager.accounts: client id -> Account
    pc,         \* main: "reading" the stream, "done" after the output, "panicked"
    output,     \* the records written by main after the stream ended
    last,       \* the loop's current iteration: the record handed over, the
                \* value returned for it and the owning account before the call
    nread,      \* number of records read so far
    seen,       \* history: the client identifiers of the records read so far
    replayed    \* history: the registry obtained by handing over, in the same
                \* order, only the records process_record returned Ok for

vars == <<accounts, pc, output, last, nread, seen, replayed>>

NoRecord == [type |-> "None", client_id |-> 0, transaction_id |-> 0, amount |-> None]

\* mutant: the registry hands out an account it already holds, whoever owns it
AccountOf_Shared(accs, client_id) ==
    IF DOMAIN accs # {}
    THEN accs[CHOOSE c \in DOMAIN accs : \A d \in DOMAIN accs : c <= d]
    ELSE Account_new(client_id)

\* the account process_record finds (or creates) for a client
AccountOf(accs, client_id) ==
    IF client_id \in DOMAIN accs THEN accs[client_id] ELSE Account_new(client_id)

\* no iteration of the loop is running
NoCall == [record |-> NoRecord, result |-> Ok, before |-> Account_new(0)]

Init ==
    /\ accounts = EmptyMap
    /\ pc = "reading"
    /\ output = {}
    /\ last = NoCall
    /\ nread = 0
    /\ seen = {}
    /\ replayed = EmptyMap

\* AccountManager::process_record as a function of the registry: the registry
\* it leaves, the value it returns and the account it found or created
Routed(accs, record) ==
    LET account == AccountOf(accs, record.client_id)
        outcome == Account_process_record(account, record)
    IN  [accounts |-> Insert(accs, record.client_id, outcome.account),
         result |-> outcome.result,
         before |-> account]

\* AccountManager::process_record, called by main's loop for one record
AccountManager_process_record(record) ==
    LET routed == Routed(accounts, record)
    IN  /\ accounts' = routed.accounts
        /\ last' = [record |-> record, result |-> routed.result, before |-> routed.before]
        /\ pc' = IF routed.result = Panic THEN "panicked" ELSE "reading"

\* one iteration of main's loop: a record of the given kind is read and routed
ReadRecord(type, amounts, clients) ==
    /\ pc = "reading"
    /\ \E client_id \in clients, transaction_id \in TransactionIds, amount \in amounts :
           AccountManager_process_record(
               [type |-> type, client_id |-> client_id,
                transaction_id |-> transaction_id, amount |-> amount])
    /\ seen' = seen \cup {last'.record.client_id}
    /\ replayed' =
           IF last'.result = Ok
           THEN LET client_id == last'.record.client_id
                IN  Insert(replayed, client_id,
                           Account_process_record(AccountOf(replayed, client_id),
                                                  last'.record).account)
           ELSE replayed
    /\ UNCHANGED output

\* Account::to_output; `available + held` is the unchecked operator, which
\* panics when the sum is not representable
to_output(self) ==
    IF InRange(self.available + self.held)
    THEN [client_id |-> self.client_id, available |-> self.available,
          held |-> self.held, total |-> self.available + self.held,
          locked |-> self.locked]
    ELSE Panic

gather_output(accs) == {to_output(accs[c]) : c \in DOMAIN accs}

\* end of the stream: the loop is left (its record goes out of scope) and main
\* gathers and writes the snapshots
WriteOutput ==
    /\ pc = "reading"
    /\ IF \A c \in DOMAIN accounts : to_output(accounts[c]) # Panic
       THEN output' = gather_output(accounts) /\ pc' = "done"
       ELSE output' = output /\ pc' = "panicked"
    /\ last' = NoCall
    /\ UNCHANGED <<accounts, nread, seen, replayed>>

\* --- Spec: the stream of a single client, of any length
StreamClient == {c \in ClientIds : \A d \in ClientIds : c <= d}

Deposit == ReadRecord("Deposit", Amounts, StreamClient) /\ UNCHANGED nread
Withdrawal == ReadRecord("Withdrawal", Amounts, StreamClient) /\ UNCHANGED nread
Dispute == ReadRecord("Dispute", {None}, StreamClient) /\ UNCHANGED nread
Resolve == ReadRecord("Resolve", {None}, StreamClient) /\ UNCHANGED nread
Chargeback == ReadRecord("Chargeback", {None}, StreamClient) /\ UNCHANGED nread

Next == Deposit \/ Withdrawal \/ Dispute \/ Resolve \/ Chargeback \/ WriteOutput

Spec == Init /\ [][Next]_vars

\* --- SpecManager: a stream of at most MaxEvents records over all clients
Counted(step) == nread < MaxEvents /\ step /\ nread' = nread + 1

\* the amounts of the multi-client stream: absent, or the largest amount
ManagerAmounts == {None, Some(MaxAmount)}

ManagerDeposit == Counted(ReadRecord("Deposit", ManagerAmounts, ClientIds))
ManagerWithdrawal == Counted(ReadRecord("Withdrawal", ManagerAmounts, ClientIds))
ManagerDispute == Counted(ReadRecord("Dispute", {None}, ClientIds))
ManagerResolve == Counted(ReadRecord("Resolve", {None}, ClientIds))
ManagerChargeback == Counted(ReadRecord("Chargeback", {None}, ClientIds))

NextManager ==
    \/ ManagerDeposit \/ ManagerWithdrawal \/ ManagerDispute
    \/ ManagerResolve \/ ManagerChargeback \/ WriteOutput

SpecManager == Init /\ [][NextManager]_vars

TypeOK ==
    /\ pc \in {"reading", "done", "panicked"}
    /\ DOMAIN accounts \subseteq ClientIds
    /\ \A c \in DOMAIN accounts :
          /\ accounts[c].client_id = c
          /\ accounts[c].available \in Decimals
          /\ accounts[c].held \in Decimals
          /\ accounts[c].locked \in BOOLEAN
          /\ DOMAIN accounts[c].transactions \subseteq TransactionIds

\* ---------------------------------------------------------------- properties
\* a record has been handed to process_record
Processed == last.record.type # "None"
\* the account the last record was routed to, as the call left it
After == accounts[last.record.client_id]
\* the state of a transaction identifier within an account
TxState(account, t) ==
    IF t \in DOMAIN account.transactions THEN account.transactions[t].state ELSE "absent"
\* the last record names a transaction the account had recorded before the call
NamesRecorded == last.record.transaction_id \in DOMAIN last.before.transactions
NamedBefore == last.before.transactions[last.record.transaction_id]

\* C1: whenever process_record returns an error, the account (available, held,
\* locked and the whole transactions map) is exactly what it was before the call.
C1_FailureAtomicity ==
    (Processed /\ last.result \notin {Ok, Panic}) => After = last.before

\* a Dispute refused for overflow of held, after available could be computed
C1_Witness ==
    /\ Processed
    /\ last.record.type = "Dispute"
    /\ last.result = DecimalOverflow
    /\ NamesRecorded
    /\ InRange(last.before.available - NamedBefore.amount)
    /\ After = last.before

\* the amount the Deposit or Withdrawal that created the transaction asked for
Requested(transaction) ==
    IF transaction.type = "Deposit" THEN transaction.amount ELSE 0 - transaction.amount

\* a successful Dispute(t) is directly followed by a successful Resolve(t) on a
\* transaction of the given type, created for a positive amount, and the
\* balances are those before the Dispute
RoundTrip(type) ==
    LET c == last.record.client_id
        t == last.record.transaction_id
    IN  (/\ last.record.type = "Dispute" /\ last.result = Ok
         /\ last'.record.type = "Resolve" /\ last'.result = Ok
         /\ last'.record.client_id = c
         /\ last'.record.transaction_id = t
         /\ accounts[c].transactions[t].type = type
         /\ Requested(accounts[c].transactions[t]) > 0)
        => /\ accounts'[c].available = last.before.available
           /\ accounts'[c].held = last.before.held

\* C2: Deposit, Dispute, Resolve: available and held are back at the values
\* they had immediately before the Dispute.
C2_RoundTripDeposit == [][RoundTrip("Deposit")]_vars

\* C3: Withdrawal, Dispute, Resolve: available and held are back at the values
\* they had immediately before the Dispute.
C3_RoundTripWithdrawal == [][RoundTrip("Withdrawal")]_vars

\* C4: on a locked account every record, of every kind, is refused with
\* AccountIsLocked, whatever other error the record would have run into.
C4_LockPrecondition ==
    (Processed /\ last.before.locked) => last.result = AccountIsLocked

\* a Deposit re-using a recorded identifier, without an amount, on a locked account
C4_Witness ==
    /\ Processed
    /\ last.before.locked
    /\ last.record.type = "Deposit"
    /\ NamesRecorded
    /\ last.record.amount = None
    /\ last.result = AccountIsLocked

\* C5: once an account is locked it stays locked, and its available, held and
\* transactions never change again.
C5_LockPermanent ==
    [][\A c \in DOMAIN accounts :
          accounts[c].locked => (c \in DOMAIN accounts' /\ accounts'[c] = accounts[c])]_vars

\* a Dispute of a Valid transaction was handed to a locked account
C5_Witness ==
    /\ Processed
    /\ last.before.locked
    /\ last.record.type = "Dispute"
    /\ NamesRecorded
    /\ NamedBefore.state = "Valid"
    /\ After = last.before
    /\ After.locked

\* the record handled in this step is of the given kind and names t of client c
Handles(type, c, t) ==
    /\ last' # last
    /\ last'.record.type = type
    /\ last'.record.client_id = c
    /\ last'.record.transaction_id = t

\* C6: a Chargeback(t) directly after the successful Dispute(t) of a deposit of
\* amount d succeeds; a Chargeback of a disputed deposit that succeeds takes d
\* off held, leaves available alone, marks t ChargedBack and locks the account;
\* every Deposit after it gets AccountIsLocked.
C6_ChargebackDeposit ==
    [][\A c \in DOMAIN accounts : \A t \in DOMAIN accounts[c].transactions :
          LET transaction == accounts[c].transactions[t]
          IN  /\ (/\ last.record = [type |-> "Dispute", client_id |-> c,
                                    transaction_id |-> t, amount |-> None]
                  /\ last.result = Ok
                  /\ transaction.type = "Deposit"
                  /\ Handles("Chargeback", c, t))
                 => last'.result = Ok
              /\ (/\ ~accounts[c].locked
                  /\ transaction.type = "Deposit"
                  /\ transaction.state = "Dispute"
                  /\ Handles("Chargeback", c, t)
                  /\ last'.result = Ok)
                 => /\ accounts'[c].held = accounts[c].held - transaction.amount
                    /\ accounts'[c].available = accounts[c].available
                    /\ accounts'[c].transactions[t].state = "ChargedBack"
                    /\ accounts'[c].locked
              /\ (/\ transaction.type = "Deposit"
                  /\ transaction.state = "ChargedBack"
                  /\ \E u \in TransactionIds : Handles("Deposit", c, u))
                 => /\ last'.result = AccountIsLocked
                    /\ accounts'[c] = accounts[c]]_vars

\* a deposit of a positive amount has been charged back
C6_Witness ==
    /\ Processed
    /\ last.record.type = "Chargeback"
    /\ last.result = Ok
    /\ NamedBefore.type = "Deposit"
    /\ NamedBefore.amount > 0
    /\ After.held = last.before.held - NamedBefore.amount
    /\ After.available = last.before.available
    /\ After.locked

\* some addition or subtraction needed to apply the record leaves the range
OverflowNeeded(account, record) ==
    LET t == record.transaction_id
        recorded == t \in DOMAIN account.transactions
        m == account.transactions[t].amount
    IN  CASE record.type = "Deposit" ->
                 /\ ~recorded /\ record.amount # None
                 /\ ~InRange(account.available + record.amount[1])
          [] record.type = "Withdrawal" ->
                 /\ ~recorded /\ record.amount # None
                 /\ ~InRange(account.available - record.amount[1])
          [] record.type = "Dispute" ->
                 /\ recorded /\ account.transactions[t].state = "Valid"
                 /\ (~InRange(account.available - m) \/ ~InRange(account.held + m))
          [] OTHER ->
                 /\ recorded /\ account.transactions[t].state = "Dispute"
                 /\ IF account.transactions[t].type = "Deposit"
                    THEN ~InRange(account.held - m)
                    ELSE ~InRange(account.held + m) \/ ~InRange(account.available - m)

\* C7: on an unlocked account, a record whose arithmetic would overflow is
\* answered with DecimalOverflow (no abort) and the account is unchanged.
C7_OverflowCleanError ==
    (Processed /\ ~last.before.locked /\ OverflowNeeded(last.before, last.record))
        => (last.result = DecimalOverflow /\ After = last.before)

\* C8: a transaction identifier only moves absent -> Valid (successful Deposit
\* or Withdrawal), Valid -> Dispute (Dispute), Dispute -> Resolved (Resolve),
\* Dispute -> ChargedBack (Chargeback); it is never removed, and on a Resolved
\* or ChargedBack transaction no Dispute, Resolve or Chargeback succeeds.
C8_Lifecycle ==
    [][\A c \in DOMAIN accounts' : \A t \in TransactionIds :
          LET old == TxState(AccountOf(accounts, c), t)
              new == TxState(accounts'[c], t)
              names == /\ last' # last
                       /\ last'.record.client_id = c
                       /\ last'.record.transaction_id = t
              by(type) == names /\ last'.record.type = type /\ last'.result = Ok
          IN  /\ old # new =>
                    \/ old = "absent" /\ new = "Valid" /\ (by("Deposit") \/ by("Withdrawal"))
                    \/ old = "Valid" /\ new = "Dispute" /\ by("Dispute")
                    \/ old = "Dispute" /\ new = "Resolved" /\ by("Resolve")
                    \/ old = "Dispute" /\ new = "ChargedBack" /\ by("Chargeback")
              /\ (/\ old \in {"Resolved", "ChargedBack"}
                  /\ names
                  /\ last'.record.type \in {"Dispute", "Resolve", "Chargeback"})
                 => (last'.result # Ok /\ new = old)]_vars

\* a Deposit or Withdrawal re-using a recorded identifier
ReusesIdentifier ==
    /\ Processed
    /\ last.record.type \in {"Deposit", "Withdrawal"}
    /\ NamesRecorded

\* C9 (as stated): a Deposit or Withdrawal re-using an identifier always fails
\* with TransactionAlreadyExists(id), in every account state, balances unchanged.
C9_IdentifierReuse ==
    ReusesIdentifier
        => /\ last.result = TransactionAlreadyExists(last.record.transaction_id)
           /\ After.available = last.before.available
           /\ After.held = last.before.held

\* C9 (amended): on an unlocked account the re-use fails with
\* TransactionAlreadyExists(id) whatever the state of the recorded transaction;
\* on a locked account it fails with AccountIsLocked; balances are unchanged.
C9_IdentifierReuseUnlocked ==
    ReusesIdentifier
        => /\ last.result = IF last.before.locked
                            THEN AccountIsLocked
                            ELSE TransactionAlreadyExists(last.record.transaction_id)
           /\ After.available = last.before.available
           /\ After.held = last.before.held

\* a Withdrawal without amount re-uses the identifier of a Resolved transaction
C9_Witness ==
    /\ ReusesIdentifier
    /\ ~last.before.locked
    /\ last.record.type = "Withdrawal"
    /\ last.record.amount = None
    /\ NamedBefore.state = "Resolved"
    /\ last.result = TransactionAlreadyExists(last.record.transaction_id)

\* C10: on an unlocked account a Dispute of a recorded transaction that is not
\* Valid fails with TransactionWrongState(Valid, actual), a Resolve or
\* Chargeback of one that is not in Dispute with TransactionWrongState(Dispute,
\* actual); balances and the transaction are unchanged.
C10_WrongState ==
    LET expected == IF last.record.type = "Dispute" THEN "Valid" ELSE "Dispute"
    IN  (/\ Processed
         /\ ~last.before.locked
         /\ last.record.type \in {"Dispute", "Resolve", "Chargeback"}
         /\ NamesRecorded
         /\ NamedBefore.state # expected)
        => /\ last.result = TransactionWrongState(expected, NamedBefore.state)
           /\ After = last.before

\* a Chargeback of a Resolved transaction was refused
C10_Witness ==
    /\ Processed
    /\ ~last.before.locked
    /\ last.record.type = "Chargeback"
    /\ NamesRecorded
    /\ NamedBefore.state = "Resolved"
    /\ last.result = TransactionWrongState("Dispute", "Resolved")
    /\ After = last.before

\* C11: on an unlocked account a Dispute, Resolve or Chargeback naming an
\* identifier the account never recorded fails with TransactionMissing(id),
\* creates no transaction and leaves available and held unchanged.
C11_UnknownTransaction ==
    (/\ Processed
     /\ ~last.before.locked
     /\ last.record.type \in {"Dispute", "Resolve", "Chargeback"}
     /\ ~NamesRecorded)
    => /\ last.result = TransactionMissing(last.record.transaction_id)
       /\ DOMAIN After.transactions = DOMAIN last.before.transactions
       /\ After = last.before

\* a Resolve named an unknown identifier while another transaction is in Dispute
C11_Witness ==
    /\ Processed
    /\ ~last.before.locked
    /\ last.record.type = "Resolve"
    /\ ~NamesRecorded
    /\ \E t \in DOMAIN last.before.transactions :
           last.before.transactions[t].state = "Dispute"
    /\ last.result = TransactionMissing(last.record.transaction_id)
    /\ After = last.before

\* a Withdrawal with an unused identifier and an amount, on an unlocked
\* account, that would take available below zero
Overdraws ==
    /\ Processed
    /\ ~last.before.locked
    /\ last.record.type = "Withdrawal"
    /\ ~NamesRecorded
    /\ last.record.amount # None
    /\ last.before.available - last.record.amount[1] < 0

\* a successful Withdrawal leaves available at zero or above
WithdrawalKeepsAvailable ==
    (Processed /\ last.record.type = "Withdrawal" /\ last.result = Ok)
        => After.available >= 0

\* C12 (as stated): a Withdrawal that would take available below zero fails
\* with WithdrawalNotEnoughMoneyAvailable(available, a) and changes nothing;
\* a successful Withdrawal never leaves available negative.
C12_InsufficientFunds ==
    /\ Overdraws
         => /\ last.result = WithdrawalNotEnoughMoneyAvailable(
                                 last.before.available, last.record.amount[1])
            /\ After = last.before
    /\ WithdrawalKeepsAvailable

\* C12 (amended): it fails with WithdrawalNotEnoughMoneyAvailable(available, a)
\* when available - a is representable and with DecimalOverflow when it is
\* not, and changes nothing; a successful Withdrawal never leaves available
\* negative.
C12_InsufficientFundsInRange ==
    /\ Overdraws
         => /\ last.result =
                  IF InRange(last.before.available - last.record.amount[1])
                  THEN WithdrawalNotEnoughMoneyAvailable(
                           last.before.available, last.record.amount[1])
                  ELSE DecimalOverflow
            /\ After = last.before
    /\ WithdrawalKeepsAvailable

\* more was asked for than the positive available of the account
C12_Witness ==
    /\ Overdraws
    /\ last.before.available > 0
    /\ last.result = WithdrawalNotEnoughMoneyAvailable(
                         last.before.available, last.record.amount[1])
    /\ After = last.before

\* C13: after every event, the snapshot of every account reports its client
\* identifier, available, held and locked, with total = available + held.
C13_SnapshotTotal ==
    pc = "reading" =>
        \A c \in DOMAIN accounts :
            to_output(accounts[c]) =
                [client_id |-> c,
                 available |-> accounts[c].available,
                 held |-> accounts[c].held,
                 total |-> accounts[c].available + accounts[c].held,
                 locked |-> accounts[c].locked]

\* a Deposit or Withdrawal without an amount was handed to an unlocked account
MissingAmount ==
    /\ Processed
    /\ ~last.before.locked
    /\ last.record.type \in {"Deposit", "Withdrawal"}
    /\ last.record.amount = None

\* C14: on an unlocked account, a Deposit or Withdrawal event that carries no
\* amount is rejected with AmountMissing, records no transaction and changes
\* no balance.
C14_MissingAmount ==
    MissingAmount
    => /\ last.result = AmountMissing
       /\ After = last.before

\* C14 (amended): the identifier is looked up before the amount is unwrapped:
\* without an amount, an unused identifier is rejected with AmountMissing and
\* a recorded one with TransactionAlreadyExists; nothing changes either way.
C14_MissingAmountUnusedId ==
    MissingAmount
    => /\ last.result = IF NamesRecorded
                        THEN TransactionAlreadyExists(last.record.transaction_id)
                        ELSE AmountMissing
       /\ After = last.before

C14_Witness ==
    /\ MissingAmount
    /\ ~NamesRecorded
    /\ last.record.type = "Deposit"
    /\ last.before.transactions # EmptyMap
    /\ last.result = AmountMissing
    /\ After = last.before

\* the records gather_output returns for a client
SnapshotsOf(c) ==
    {r \in gather_output(accounts) : r # Panic /\ r.client_id = c}

\* the record being read is the first of its client
FirstSight ==
    /\ last'.record.type # "None"
    /\ last'.record.client_id \notin seen

\* C15: gather_output contains exactly one record per client identifier that
\* appeared in at least one event, accepted or rejected, and none for any other
\* client; an account created on first sight starts with available = 0,
\* held = 0, locked = false and no transactions.
C15_RegistryCoverage ==
    /\ [](pc = "reading" =>
            \A c \in ClientIds :
                Cardinality(SnapshotsOf(c)) = IF c \in seen THEN 1 ELSE 0)
    /\ [][FirstSight =>
            last'.before = [client_id |-> last'.record.client_id,
                            available |-> 0, held |-> 0, locked |-> FALSE,
                            transactions |-> EmptyMap]]_vars

\* C16: the available, held, locked and transactions of every account equal
\* those obtained by replaying, in the same order, only the accepted events,
\* and a rejected event never stops later events from being processed.
C16_RejectedAreNoOps ==
    /\ \A c \in seen :
          /\ accounts[c].available = AccountOf(replayed, c).available
          /\ accounts[c].held = AccountOf(replayed, c).held
          /\ accounts[c].locked = AccountOf(replayed, c).locked
          /\ accounts[c].transactions = AccountOf(replayed, c).transactions
    /\ (Processed /\ last.result # Ok) => pc = "reading"

\* C17: in every reachable account state, every Deposit transaction has a
\* strictly positive stored amount, and every Withdrawal transaction stores
\* exactly the negative of the amount its event requested, a non-positive value.
C17_StoredAmountSign ==
    /\ \A c \in DOMAIN accounts :
          \A t \in DOMAIN accounts[c].transactions :
              LET transaction == accounts[c].transactions[t]
              IN  /\ transaction.type = "Deposit" => transaction.amount > 0
                  /\ transaction.type = "Withdrawal" => transaction.amount <= 0
    /\ (Processed /\ last.record.type = "Withdrawal" /\ last.result = Ok)
       => After.transactions[last.record.transaction_id].amount
              = 0 - last.record.amount[1]

\* a Dispute was handed to an unlocked account for a transaction in state Valid
DisputesValid ==
    /\ Processed
    /\ ~last.before.locked
    /\ last.record.type = "Dispute"
    /\ NamesRecorded
    /\ NamedBefore.state = "Valid"

\* the Dispute succeeded: the stored amount went from available to held, the
\* transaction is in state Dispute, the sum of the balances and every other
\* transaction are as before
DisputeApplied ==
    /\ last.result = Ok
    /\ After.available = last.before.available - NamedBefore.amount
    /\ After.held = last.before.held + NamedBefore.amount
    /\ After.available + After.held = last.before.available + last.before.held
    /\ After.locked = last.before.locked
    /\ After.transactions =
           [last.before.transactions EXCEPT ![last.record.transaction_id].state = "Dispute"]

\* C18: on an unlocked account, a Dispute on a transaction in state Valid with
\* stored signed amount m succeeds and sets available' = available - m,
\* held' = held + m and the state to Dispute; available + held is unchanged and
\* no other transaction is touched.
C18_DisputeEffect == DisputesValid => DisputeApplied

\* C18 (amended): the Dispute succeeds with these effects when available - m
\* and held + m are both representable; otherwise it is rejected with
\* DecimalOverflow and nothing changes.
C18_DisputeEffectInRange ==
    DisputesValid
    => IF /\ InRange(last.before.available - NamedBefore.amount)
          /\ InRange(last.before.held + NamedBefore.amount)
       THEN DisputeApplied
       ELSE last.result = DecimalOverflow /\ After = last.before

\* a disputed withdrawal, with another transaction recorded next to it
C18_Witness ==
    /\ DisputesValid
    /\ NamedBefore.type = "Withdrawal"
    /\ NamedBefore.amount < 0
    /\ DOMAIN last.before.transactions # {last.record.transaction_id}
    /\ DisputeApplied

\* a record of the given kind was handed to an unlocked account for a
\* transaction in state Dispute
RevertsDisputed(type) ==
    /\ Processed
    /\ ~last.before.locked
    /\ last.record.type = type
    /\ NamesRecorded
    /\ NamedBefore.state = "Dispute"

\* the balances of the revert rule, by the kind of the disputed transaction
RevertHeld ==
    IF NamedBefore.type = "Deposit"
    THEN last.before.held - NamedBefore.amount
    ELSE last.before.held - (0 - NamedBefore.amount)
RevertAvailable ==
    IF NamedBefore.type = "Deposit"
    THEN last.before.available
    ELSE last.before.available + (0 - NamedBefore.amount)

\* the event applied the revert rule and left the transaction in the given
\* state and the account with the given lock; a balance that is not
\* representable is refused with DecimalOverflow
Reverted(state, locked) ==
    IF InRange(RevertHeld) /\ InRange(RevertAvailable)
    THEN /\ last.result = Ok
         /\ After = [last.before EXCEPT
                        !.available = RevertAvailable,
                        !.held = RevertHeld,
                        !.locked = locked,
                        !.transactions[last.record.transaction_id].state = state]
    ELSE last.result = DecimalOverflow /\ After = last.before

\* C19: on a transaction in state Dispute with stored amount m, Resolve and
\* Chargeback compute the same balances: for a Deposit held' = held - m and
\* available' = available; for a Withdrawal held' = held - (-m) and
\* available' = available + (-m). They differ only in the final transaction
\* state (Resolved, ChargedBack) and in Chargeback setting locked.
C19_RevertRule ==
    /\ RevertsDisputed("Resolve") => Reverted("Resolved", FALSE)
    /\ RevertsDisputed("Chargeback") => Reverted("ChargedBack", TRUE)

\* a Resolve of a disputed withdrawal that changed both balances
C19_Witness ==
    /\ RevertsDisputed("Resolve")
    /\ NamedBefore.type = "Withdrawal"
    /\ NamedBefore.amount < 0
    /\ last.result = Ok
    /\ After.held = last.before.held + NamedBefore.amount
    /\ After.available = last.before.available - NamedBefore.amount
    /\ After.transactions[last.record.transaction_id].state = "Resolved"

\* C20: on an unlocked account, a Deposit with an unused id and a present
\* amount a succeeds, sets available' = available + a, leaves held and locked
\* unchanged, and records exactly one new transaction {Deposit, +a, Valid}
\* under that id without altering any existing transaction.
C20_DepositEffect ==
    (/\ Processed
     /\ ~last.before.locked
     /\ last.record.type = "Deposit"
     /\ ~NamesRecorded
     /\ last.record.amount # None)
    => /\ last.result = Ok
       /\ After.available = last.before.available + last.record.amount[1]
       /\ After.held = last.before.held
       /\ After.locked = last.before.locked
       /\ DOMAIN After.transactions =
              DOMAIN last.before.transactions \cup {last.record.transaction_id}
       /\ After.transactions[last.record.transaction_id] =
              [state |-> "Valid", amount |-> last.record.amount[1], type |-> "Deposit"]
       /\ \A t \in DOMAIN last.before.transactions :
              After.transactions[t] = last.before.transactions[t]

\* a Withdrawal with an unused id and an amount the available funds cover was
\* handed to an unlocked account
WithdrawsCovered ==
    /\ Processed
    /\ ~last.before.locked
    /\ last.record.type = "Withdrawal"
    /\ ~NamesRecorded
    /\ last.record.amount # None
    /\ last.before.available - last.record.amount[1] >= 0

\* the Withdrawal succeeded: available went down by the amount, held and locked
\* are as before, and the one new transaction is {Withdrawal, -a, Valid}
WithdrawalApplied ==
    /\ last.result = Ok
    /\ After.available = last.before.available - last.record.amount[1]
    /\ After.held = last.before.held
    /\ After.locked = last.before.locked
    /\ DOMAIN After.transactions =
           DOMAIN last.before.transactions \cup {last.record.transaction_id}
    /\ After.transactions[last.record.transaction_id] =
           [state |-> "Valid", amount |-> 0 - last.record.amount[1],
            type |-> "Withdrawal"]
    /\ \A t \in DOMAIN last.before.transactions :
           After.transactions[t] = last.before.transactions[t]

\* C21: on an unlocked account, a Withdrawal with an unused id and a present
\* amount a with available - a >= 0 succeeds, sets available' = available - a,
\* leaves held and locked unchanged, and records exactly one new transaction
\* {Withdrawal, -a, Valid} under that id.
C21_WithdrawalEffect == WithdrawsCovered => WithdrawalApplied

\* what the Withdrawal arm does for such a record: the effects above when
\* available - a is representable (always so for a positive a), otherwise
\* DecimalOverflow and no change
C21_WithdrawalEffectInRange ==
    WithdrawsCovered
    => IF InRange(last.before.available - last.record.amount[1])
       THEN WithdrawalApplied
       ELSE last.result = DecimalOverflow /\ After = last.before

\* the record being read changes at most the account of its client
OthersUnchanged ==
    /\ DOMAIN accounts' \subseteq DOMAIN accounts \cup {last'.record.client_id}
    /\ \A d \in DOMAIN accounts :
          d # last'.record.client_id
          => d \in DOMAIN accounts' /\ accounts'[d] = accounts[d]

\* the record being read follows a record of another client
FollowsOtherClient ==
    /\ last.record.type # "None"
    /\ last'.record.type # "None"
    /\ last.record.client_id # last'.record.client_id

\* the two records handed over in the opposite order, from the registry the
\* earlier one found: the later record first, then the earlier one
SwappedFirst == Routed(Insert(accounts, last.record.client_id, last.before), last'.record)
SwappedSecond == Routed(SwappedFirst.accounts, last.record)

\* both orders return the same value for each record and, unless the run
\* aborts on the later record in both, leave the same registry
SameEitherOrder ==
    /\ SwappedFirst.result = last'.result
    /\ last'.result # Panic
       => /\ SwappedSecond.result = last.result
          /\ SwappedSecond.accounts = accounts'

\* C22: routing an event for client c changes at most the account of c, every
\* other account is unchanged, so swapping two neighbouring events of different
\* clients (hence any interleaving that keeps each client's order) gives the
\* same registry, the same results and the same snapshots.
C22_AccountIsolation ==
    [][OthersUnchanged /\ (FollowsOtherClient => SameEitherOrder)]_vars

\* an accepted event of one client, read right after an accepted event of
\* another client, while both accounts hold transactions
C22_Witness ==
    /\ Processed
    /\ last.result = Ok
    /\ \E d \in DOMAIN accounts :
          /\ d # last.record.client_id
          /\ accounts[d].transactions # EmptyMap
          /\ accounts[d].available # 0
    /\ After.transactions # EmptyMap
    /\ After # last.before

\* the transactions of an account that are in state ChargedBack
ChargedBackIn(account) ==
    {t \in DOMAIN account.transactions : account.transactions[t].state = "ChargedBack"}

\* C23: in every state reachable from a freshly created account, locked is
\* true if and only if some transaction of that account is in state
\* ChargedBack, and at most one transaction per account is in state ChargedBack.
C23_LockedIffChargedBack ==
    \A c \in DOMAIN accounts :
        /\ accounts[c].locked <=> ChargedBackIn(accounts[c]) # {}
        /\ Cardinality(ChargedBackIn(accounts[c])) <= 1

\* a locked account with one transaction charged back and another one that a
\* later record named
C23_Witness ==
    /\ Processed
    /\ last.before.locked
    /\ last.result = AccountIsLocked
    /\ Cardinality(ChargedBackIn(After)) = 1
    /\ NamesRecorded
    /\ NamedBefore.state # "ChargedBack"
====
